---- MODULE Spec2Model ----
(***************************************************************************)
(* tabularcompare: the Comparison classes of core.py and compare.py built  *)
(* on datacompy.Compare.  A DataFrame is a record                           *)
(*   [columns : sequence of names, dtypes : name -> dtype, rows : sequence *)
(*    of (name -> value)]                                                   *)
(* with the default RangeIndex (row i of the sequence has index i-1).      *)
(* A value is a record [t, n, s]: t is its kind, n its number, s its text  *)
(* as a sequence of characters.  Floats are kept in tenths (n = 104 is     *)
(* 10.4), so the arithmetic of the tolerance test is exact.                *)
(***************************************************************************)
EXTENDS Integers, Sequences, FiniteSets, TLC

VARIABLES df1, df2, args, pc, obj, orig1, orig2, loaded, cli

vars == <<df1, df2, args, pc, obj, orig1, orig2, loaded, cli>>

(***************************************************************************)
(* Values and their pandas dtypes                                          *)
(***************************************************************************)
FloatV(x) == [t |-> "float", n |-> x, s |-> <<>>]
IntV(x) == [t |-> "int", n |-> x, s |-> <<>>]
StrV(cs) == [t |-> "str", n |-> 0, s |-> cs]
TsV(d) == [t |-> "ts", n |-> d, s |-> <<>>]
NaN == [t |-> "nan", n |-> 0, s |-> <<>>]
NA == [t |-> "NA", n |-> 0, s |-> <<>>]
NaT == [t |-> "NaT", n |-> 0, s |-> <<>>]
None == [t |-> "None", n |-> 0, s |-> <<>>]

\* 1e19, an integral float beyond the int64 range (2^63 - 1 is about 9.22e18):
\* the mantissa in tenths and the exponent as str() prints it.  Every other
\* float of the model has no exponent and lies within the range.  The inputs
\* hold 1e19 in integral columns only, so that it is never compared or
\* rendered.
Float1e19 == [t |-> "float", n |-> 10, s |-> <<"e", "+", "1", "9">>]
FitsInt64(v) == v.s = <<>>

\* pd.isnull
IsNull(v) == v.t \in {"nan", "NA", "NaT", "None"}


\* pd.api.types.is_float_dtype / is_integer_dtype
is_float_dtype(dtype) == dtype = "float64"
is_integer_dtype(dtype) == dtype \in {"int64", "Int64"}
IsNumericDtype(dtype) == dtype \in {"int64", "Int64", "float64"}

(***************************************************************************)
(* str(value), as Series.astype(str) renders a cell                        *)
(***************************************************************************)
DigitChar(d) == <<"0", "1", "2", "3", "4", "5", "6", "7", "8", "9">>[d + 1]

RECURSIVE Digits(_)
Digits(k) == IF k < 10 THEN <<DigitChar(k)>>
             ELSE Digits(k \div 10) \o <<DigitChar(k % 10)>>

AsStr(v) ==
  CASE v.t = "float" -> Digits(v.n \div 10) \o <<".">> \o Digits(v.n % 10)
    [] v.t = "int" -> Digits(v.n)
    [] v.t = "str" -> v.s
    [] v.t = "ts" -> <<"1", "9", "4", "2", "-", "0", "1", "-">>
                     \o (IF v.n < 10 THEN <<"0">> ELSE <<>>) \o Digits(v.n)
    [] v.t = "nan" -> <<"n", "a", "n">>
    [] v.t = "NA" -> <<"<", "N", "A", ">">>
    [] v.t = "NaT" -> <<"N", "a", "T">>
    [] v.t = "None" -> <<"N", "o", "n", "e">>

\* str.replace(pat, rep, regex=False): every non-overlapping occurrence, left to right
RECURSIVE StrReplace(_, _, _)
StrReplace(cs, pat, rep) ==
  IF Len(cs) < Len(pat) THEN cs
  ELSE IF SubSeq(cs, 1, Len(pat)) = pat
       THEN rep \o StrReplace(SubSeq(cs, Len(pat) + 1, Len(cs)), pat, rep)
       ELSE <<cs[1]>> \o StrReplace(Tail(cs), pat, rep)

\* a faulty rendering that elides "{nan}" alone and leaves "<NA>" in place
DeltaStringKeepNA(l, r) ==
  LET raw == <<"{">> \o AsStr(l) \o <<"}", " ", "-", "-", ">", " ", "{">>
             \o AsStr(r) \o <<"}">>
  IN StrV(StrReplace(raw, <<"{", "n", "a", "n", "}">>, <<"{", "}">>))

\* "{" + left.astype(str) + "} --> {" + right.astype(str) + "}", then the two
\* replacements of "{nan}" by "{}" and of "<NA>" by ""
DeltaString(l, r) ==
  LET raw == <<"{">> \o AsStr(l) \o <<"}", " ", "-", "-", ">", " ", "{">>
             \o AsStr(r) \o <<"}">>
      noNan == StrReplace(raw, <<"{", "n", "a", "n", "}">>, <<"{", "}">>)
  IN StrV(StrReplace(noNan, <<"<", "N", "A", ">">>, <<>>))

(***************************************************************************)
(* DataFrames                                                              *)
(***************************************************************************)
Range(f) == {f[i] : i \in DOMAIN f}
Indices(k) == [i \in 1..k |-> i]
ColSet(df) == Range(df.columns)
NRows(df) == Len(df.rows)

\* OrderedSet(df1.columns) & OrderedSet(df2.columns): df1's order
IntersectColumns(a, b) == SelectSeq(a.columns, LAMBDA c : c \in ColSet(b))
\* datacompy's df1_unq_columns(): OrderedSet(df1.columns) - OrderedSet(df2.columns)
UnqColumns(a, b) == SelectSeq(a.columns, LAMBDA c : c \notin ColSet(b))

\* df[cols]: the columns cols, in that order
SelectColumns(df, cols) ==
  [columns |-> cols,
   dtypes |-> [c \in Range(cols) |-> df.dtypes[c]],
   rows |-> [i \in 1..NRows(df) |-> [c \in Range(cols) |-> df.rows[i][c]]]]

\* df.drop(columns=cols, inplace=True) raises KeyError, and drops nothing, when
\* a label is not a column
DropRaises(df, cols) == \E c \in Range(cols) : c \notin ColSet(df)
Drop(df, cols) ==
  SelectColumns(df, SelectSeq(df.columns, LAMBDA c : c \notin Range(cols)))

(***************************************************************************)
(* Comparison.__init__: ignore_columns (core.py 76-84, compare.py 58-66)   *)
(***************************************************************************)
\* join_columns is [none, cols]: None, or a list of names (a str is the
\* one-element list, core.py 85-88)
NoJoin == [none |-> TRUE, cols |-> <<>>]
JoinOn(cols) == [none |-> FALSE, cols |-> cols]
\* "if self.join_columns:" is false for None and for []
Truthy(jc) == ~jc.none /\ Len(jc.cols) > 0

\* try: df1.drop(...); df2.drop(...)  except KeyError: pass
IgnoreDf1(a, b, ignore) ==
  IF Len(ignore) = 0 \/ DropRaises(a, ignore) THEN a ELSE Drop(a, ignore)
IgnoreDf2(a, b, ignore) ==
  IF Len(ignore) = 0 \/ DropRaises(a, ignore) \/ DropRaises(b, ignore) THEN b
  ELSE Drop(b, ignore)

(***************************************************************************)
(* Comparison._handle_join (core.py 107-110; compare.py has no such step)   *)
(***************************************************************************)
HandleJoin(module, jc, on_index) ==
  IF module = "core" /\ jc.none /\ ~on_index THEN TRUE ELSE on_index

(***************************************************************************)
(* Comparison._preprocess_int_missing (core.py 112-129, compare.py 84-99)  *)
(***************************************************************************)
\* x.is_integer() of a float kept in tenths
IsInteger(v) == v.n % 10 = 0

\* the columns the loop visits
PreprocessColumns(a, b, jc) ==
  IF Truthy(jc)
  THEN SelectSeq(IntersectColumns(a, b), LAMBDA c : c \notin Range(jc.cols))
  ELSE IntersectColumns(a, b)

\* a faulty preprocessing that retypes no column
RetypesNoColumn(df, c) == FALSE

\* is_float_dtype(df[col]) and all(x.is_integer() for x in df[col] if not math.isnan(x))
RetypesColumn(df, c) ==
  /\ is_float_dtype(df.dtypes[c])
  /\ \A i \in 1..NRows(df) : df.rows[i][c].t # "nan" => IsInteger(df.rows[i][c])

\* a cell of df[col].astype("Int64")
AsInt64(v) == IF v.t = "nan" THEN NA ELSE IntV(v.n \div 10)

\* df[col].astype("Int64") raises TypeError ("cannot safely cast
\* non-equivalent float64 to int64") when a value is beyond the int64 range
AstypeRaises(df, c) ==
  /\ RetypesColumn(df, c)
  /\ \E i \in 1..NRows(df) : df.rows[i][c].t # "nan" /\ ~FitsInt64(df.rows[i][c])

\* the loop takes each column for df1, then for df2: the place in cols where
\* it raises, 0 if it runs to its end
PreprocessStops(a, b, cols) ==
  LET bad == {k \in DOMAIN cols : AstypeRaises(a, cols[k]) \/ AstypeRaises(b, cols[k])}
  IN IF bad = {} THEN 0 ELSE CHOOSE k \in bad : \A m \in bad : k <= m

\* the columns the loop has been through for df1 (side 1) or df2 (side 2)
\* when it ends or raises
PreprocessVisited(a, b, cols, side) ==
  LET stop == PreprocessStops(a, b, cols)
  IN IF stop = 0 THEN cols
     ELSE SubSeq(cols, 1, stop - 1)
          \o (IF side = 1 /\ ~AstypeRaises(a, cols[stop]) THEN <<cols[stop]>> ELSE <<>>)

PreprocessIntMissing(df, cols) ==
  LET hit == {c \in Range(cols) : RetypesColumn(df, c)}
  IN [columns |-> df.columns,
      dtypes |-> [c \in ColSet(df) |-> IF c \in hit THEN "Int64" ELSE df.dtypes[c]],
      rows |-> [i \in 1..NRows(df) |->
                  [c \in ColSet(df) |->
                     IF c \in hit THEN AsInt64(df.rows[i][c]) ELSE df.rows[i][c]]]]

(***************************************************************************)
(* Comparison._compare: datacompy.Compare(...) (core.py 131-148,           *)
(* compare.py 101-116).  The library's steps, as the call runs them.       *)
(***************************************************************************)
\* a faulty validation that lets an empty list of join columns through
CompareRaisesUnlessEmpty(a, b, jc, on_index) ==
  IF on_index /\ ~jc.none THEN "Exception"
  ELSE IF ~on_index /\ jc.none THEN "TypeError"
  ELSE IF \E c \in Range(jc.cols) : c \notin ColSet(a) \/ c \notin ColSet(b)
       THEN "ValueError"
  ELSE ""

\* Compare.__init__, _validate_dataframe and _dataframe_merge: the exception
\* raised, "" if none.  An empty list of join columns is no column to look
\* for duplicates in and no key to merge on: pandas raises from
\* drop_duplicates(subset=[]) or from merge(on=[]) (a ValueError, or an
\* IndexError in later versions)
CompareRaises(a, b, jc, on_index) ==
  IF on_index /\ ~jc.none THEN "Exception"
  ELSE IF ~on_index /\ jc.none THEN "TypeError"
  ELSE IF \E c \in Range(jc.cols) : c \notin ColSet(a) \/ c \notin ColSet(b)
       THEN "ValueError"
  ELSE IF ~on_index /\ jc.cols = <<>> THEN "ValueError"
  ELSE ""

\* the join key of row i
KeyOf(df, jc, i) == [k \in 1..Len(jc.cols) |-> df.rows[i][jc.cols[k]]]

\* a faulty numbering that gives every row of a group the same number
CumCountZero(df, jc, i) == 0

\* generate_id_within_group: groupby(join_columns).cumcount()
CumCount(df, jc, i) ==
  Cardinality({j \in 1..(i - 1) : KeyOf(df, jc, j) = KeyOf(df, jc, i)})

\* row i of df1 and row j of df2 are one row of the outer merge
Paired(a, b, jc, on_index, i, j) ==
  IF on_index THEN i = j
  ELSE /\ KeyOf(a, jc, i) = KeyOf(b, jc, j)
       /\ CumCount(a, jc, i) = CumCount(b, jc, j)

\* a faulty merge that keeps df1's rows only (how="left")
LeftJoin(a, b, jc, on_index) ==
  [i \in 1..NRows(a) |->
     IF \E j \in 1..NRows(b) : Paired(a, b, jc, on_index, i, j)
     THEN [merge |-> "both", l |-> i,
           r |-> CHOOSE j \in 1..NRows(b) : Paired(a, b, jc, on_index, i, j)]
     ELSE [merge |-> "left_only", l |-> i, r |-> 0]]

\* a faulty merge that takes df2's rows in df2's order, then the rows of df1
\* alone
RightFirstJoin(a, b, jc, on_index) ==
  LET right == [j \in 1..NRows(b) |->
                  IF \E i \in 1..NRows(a) : Paired(a, b, jc, on_index, i, j)
                  THEN [merge |-> "both", r |-> j,
                        l |-> CHOOSE i \in 1..NRows(a) : Paired(a, b, jc, on_index, i, j)]
                  ELSE [merge |-> "right_only", l |-> 0, r |-> j]]
      leftOnly == SelectSeq(Indices(NRows(a)),
                    LAMBDA i : ~\E j \in 1..NRows(b) : Paired(a, b, jc, on_index, i, j))
  IN right \o [k \in 1..Len(leftOnly) |->
                 [merge |-> "left_only", l |-> leftOnly[k], r |-> 0]]

\* df1.merge(df2, how="outer", indicator=True): df1's rows in df1's order,
\* then the rows of df2 alone in df2's order; l and r are the positions of
\* the row in df1 and df2 (0: absent)
OuterJoin(a, b, jc, on_index) ==
  LET left == [i \in 1..NRows(a) |->
                 IF \E j \in 1..NRows(b) : Paired(a, b, jc, on_index, i, j)
                 THEN [merge |-> "both", l |-> i,
                       r |-> CHOOSE j \in 1..NRows(b) : Paired(a, b, jc, on_index, i, j)]
                 ELSE [merge |-> "left_only", l |-> i, r |-> 0]]
      rightOnly == SelectSeq(Indices(NRows(b)),
                     LAMBDA j : ~\E i \in 1..NRows(a) : Paired(a, b, jc, on_index, i, j))
  IN left \o [k \in 1..Len(rightOnly) |->
                [merge |-> "right_only", l |-> 0, r |-> rightOnly[k]]]

\* col.astype(float) succeeds: not for a datetime column, nor for an object
\* column holding a string (ValueError) or pd.NA (TypeError)
AsFloatOk(dtype, vals) ==
  \/ IsNumericDtype(dtype)
  \/ dtype = "object" /\ \A k \in DOMAIN vals : vals[k].t \in {"nan", "None"}

\* the float of a numeric cell, in tenths
Tenths(v) == IF v.t = "int" THEN 10 * v.n ELSE v.n
Abs(x) == IF x < 0 THEN -x ELSE x

\* a faulty test that takes the difference without its absolute value
IsCloseSigned(x, y, rel_tol, abs_tol) ==
  IF IsNull(x) \/ IsNull(y) THEN IsNull(x) /\ IsNull(y)
  ELSE 1000 * (Tenths(x) - Tenths(y)) <= 1000 * abs_tol + rel_tol * Abs(Tenths(y))

\* a faulty test that scales the relative tolerance by the df1 value
IsCloseLeft(x, y, rel_tol, abs_tol) ==
  IF IsNull(x) \/ IsNull(y) THEN IsNull(x) /\ IsNull(y)
  ELSE 1000 * Abs(Tenths(x) - Tenths(y)) <= 1000 * abs_tol + rel_tol * Abs(Tenths(x))

\* np.isclose(a, b, rtol, atol, equal_nan=True): |a - b| <= atol + rtol * |b|
\* (atol in tenths, rtol in thousandths)
IsClose(x, y, rel_tol, abs_tol) ==
  IF IsNull(x) \/ IsNull(y) THEN IsNull(x) /\ IsNull(y)
  ELSE 1000 * Abs(Tenths(x) - Tenths(y)) <= 1000 * abs_tol + rel_tol * Abs(Tenths(y))

\* str.strip() and str.upper() of a string cell
RECURSIVE LStrip(_)
LStrip(cs) == IF cs # <<>> /\ cs[1] = " " THEN LStrip(Tail(cs)) ELSE cs
RECURSIVE RStrip(_)
RStrip(cs) == IF cs # <<>> /\ cs[Len(cs)] = " " THEN RStrip(SubSeq(cs, 1, Len(cs) - 1))
              ELSE cs
UpperChar(c) == CASE c = "a" -> "A" [] c = "b" -> "B" [] c = "n" -> "N"
                  [] OTHER -> c
Upper(cs) == [k \in 1..Len(cs) |-> UpperChar(cs[k])]

\* what the third branch of columns_equal compares
Normalised(v, dtype, ignore_spaces, ignore_case) ==
  IF dtype = "object" /\ v.t = "str"
  THEN LET stripped == IF ignore_spaces THEN RStrip(LStrip(v.s)) ELSE v.s
       IN StrV(IF ignore_case THEN Upper(stripped) ELSE stripped)
  ELSE v

\* one cell of (col_1 == col_2) | (col_1.isnull() & col_2.isnull()): "T", "F",
\* or "NA" where a masked (Int64) column holds <NA> beside a value
ExactCell(x, y, d1, d2, ignore_spaces, ignore_case) ==
  IF IsNull(x) /\ IsNull(y) THEN "T"
  ELSE IF (d1 = "Int64" /\ x.t = "NA") \/ (d2 = "Int64" /\ y.t = "NA") THEN "NA"
  ELSE IF IsNull(x) \/ IsNull(y) THEN "F"
  ELSE IF Normalised(x, d1, ignore_spaces, ignore_case)
          = Normalised(y, d2, ignore_spaces, ignore_case) THEN "T"
  ELSE "F"

\* columns_equal(col_1, col_2, rel_tol, abs_tol, ignore_spaces, ignore_case)
ColumnsEqual(c1, c2, d1, d2, rel_tol, abs_tol, ignore_spaces, ignore_case) ==
  IF AsFloatOk(d1, c1) /\ AsFloatOk(d2, c2)
  THEN [k \in DOMAIN c1 |-> IF IsClose(c1[k], c2[k], rel_tol, abs_tol) THEN "T" ELSE "F"]
  ELSE [k \in DOMAIN c1 |-> ExactCell(c1[k], c2[k], d1, d2, ignore_spaces, ignore_case)]

\* the columns _intersect_compare gives a <col>_match column
MatchColumns(a, b, jc, on_index) ==
  SelectSeq(IntersectColumns(a, b),
            LAMBDA c : on_index \/ c \notin Range(jc.cols))

\* Compare.intersect_rows: the "both" rows of the outer merge with their index
\* label, the two source rows and the <col>_match flags
IntersectRows(a, b, jc, on_index, rel_tol, abs_tol, ignore_spaces, ignore_case) ==
  LET oj == OuterJoin(a, b, jc, on_index)
      both == SelectSeq(Indices(Len(oj)), LAMBDA p : oj[p].merge = "both")
      mcols == Range(MatchColumns(a, b, jc, on_index))
      col1(c) == [k \in 1..Len(both) |-> a.rows[oj[both[k]].l][c]]
      col2(c) == [k \in 1..Len(both) |-> b.rows[oj[both[k]].r][c]]
      eq == [c \in mcols |->
               ColumnsEqual(col1(c), col2(c), a.dtypes[c], b.dtypes[c],
                            rel_tol, abs_tol, ignore_spaces, ignore_case)]
  IN [k \in 1..Len(both) |->
        [index |-> both[k] - 1, l |-> oj[both[k]].l, r |-> oj[both[k]].r,
         row1 |-> a.rows[oj[both[k]].l], row2 |-> b.rows[oj[both[k]].r],
         match |-> [c \in mcols |-> eq[c][k]]]]

\* a cell of a column of one table in the outer merge: an int64 column that
\* is no join column is float64 in the merge when the merge has rows of the
\* other table alone, for those rows hold NaN in it
MergedCell(v, dtype, isKey, otherOnly) ==
  IF dtype = "int64" /\ ~isKey /\ otherOnly THEN FloatV(10 * v.n) ELSE v

\* a faulty selection that gives the rows of the merge that are not of the
\* other table alone
UnqRowsAndMatched(a, b, jc, on_index, side) ==
  LET oj == OuterJoin(a, b, jc, on_index)
      other == IF side = "left_only" THEN "right_only" ELSE "left_only"
      only == SelectSeq(Indices(Len(oj)), LAMBDA p : oj[p].merge # other)
  IN [k \in 1..Len(only) |->
        IF side = "left_only"
        THEN [index |-> only[k] - 1, pos |-> oj[only[k]].l, row |-> a.rows[oj[only[k]].l]]
        ELSE [index |-> only[k] - 1, pos |-> oj[only[k]].r, row |-> b.rows[oj[only[k]].r]]]

\* Compare.df1_unq_rows / df2_unq_rows: the left_only / right_only rows of the
\* outer merge, with the columns of their table
UnqRows(a, b, jc, on_index, side) ==
  LET oj == OuterJoin(a, b, jc, on_index)
      only == SelectSeq(Indices(Len(oj)), LAMBDA p : oj[p].merge = side)
      other == IF side = "left_only" THEN "right_only" ELSE "left_only"
      otherOnly == \E p \in DOMAIN oj : oj[p].merge = other
      src == IF side = "left_only" THEN a ELSE b
      keys == IF on_index THEN {} ELSE Range(jc.cols)
      posOf(p) == IF side = "left_only" THEN oj[p].l ELSE oj[p].r
  IN [k \in 1..Len(only) |->
        [index |-> only[k] - 1, pos |-> posOf(only[k]),
         row |-> [c \in ColSet(src) |->
                    MergedCell(src.rows[posOf(only[k])][c], src.dtypes[c],
                               c \in keys, otherOnly)]]]

(***************************************************************************)
(* Comparison._enhanced_compare (core.py 150-245, compare.py 118-167)      *)
(***************************************************************************)
\* the local join_columns: self.join_columns, or [""]
LocalJoinColumns(jc) == IF Truthy(jc) THEN jc.cols ELSE <<"">>

\* "sum(~intersect_rows[col + "_match"]) > 0" is bool(<NA>), a TypeError, when
\* the match column holds <NA>
EnhancedRaises(ir, mcols) ==
  \E c \in Range(mcols) : \E k \in DOMAIN ir : ir[k].match[c] = "NA"

\* the columns appended to _df1_intersect_cols, without their "_df1"
DivergingColumns(ir, icols, jc) ==
  SelectSeq(icols, LAMBDA c : /\ c \notin Range(LocalJoinColumns(jc))
                              /\ \E k \in DOMAIN ir : ir[k].match[c] = "F")

\* a faulty selection that keeps every matched row
DivergingRowsAll(ir, dcols) == ir

\* the rows of intersect_rows kept by "(~intersect_rows[match cols]).sum(axis=1) > 0"
DivergingRows(ir, dcols) ==
  SelectSeq(ir, LAMBDA row : \E c \in Range(dcols) : row.match[c] = "F")

\* the orders in which "list(set(_df1_intersect_cols).union(
\* set(_df2_intersect_cols)))" can hold its names; a name is a column and its
\* suffix, and the iteration order of a set of strings is not fixed
IntersectSetOrders(dcols) ==
  LET names == Range(dcols) \X {"_df1", "_df2"}
      n == Cardinality(names)
  IN {o \in [1..n -> names] : \A i, j \in 1..n : o[i] = o[j] => i = j}

\* a faulty selection that takes the delta columns in the order of the
\* "_df1" names of _intersect_set
SubsetColumnsOfSet(jc, dcols, setOrder) ==
  LET firsts == SelectSeq(setOrder, LAMBDA nm : nm[2] = "_df1")
  IN (IF Truthy(jc) THEN jc.cols ELSE <<>>) \o [k \in 1..Len(firsts) |-> firsts[k][1]]

\* the columns of _diverging_subset_df: the final selection
\* "join_columns + [col[:-4] for col in self._df1_intersect_cols]" of the
\* frame that was cut out with _intersect_cols in the order of _intersect_set
SubsetColumns(jc, dcols, setOrder) ==
  (IF Truthy(jc) THEN jc.cols ELSE <<>>) \o dcols

\* _diverging_subset_df: join columns (if any) and one delta column per
\* diverging column; a cell outside the "~match" selection is NaN
DivergingSubset(ir, icols, jc) ==
  LET dcols == DivergingColumns(ir, icols, jc)
      rows == DivergingRows(ir, dcols)
      keys == IF Truthy(jc) THEN jc.cols ELSE <<>>
  IN [columns |-> SubsetColumns(jc, dcols,
                                 CHOOSE o \in IntersectSetOrders(dcols) : TRUE),
      rows |-> [k \in 1..Len(rows) |->
                  [index |-> rows[k].index, l |-> rows[k].l, r |-> rows[k].r,
                   cells |-> [c \in Range(keys) \cup Range(dcols) |->
                                IF c \in Range(keys) THEN rows[k].row1[c]
                                ELSE IF rows[k].match[c] = "F"
                                     THEN DeltaString(rows[k].row1[c], rows[k].row2[c])
                                     ELSE NaN]]]]

\* a faulty selection that leaves the join columns out
UnqColumnsAlone(a, b, jc) == SelectColumns(a, UnqColumns(a, b))

\* _df1_unq_columns_df / _df2_unq_columns_df
UnqColumnsDf(a, b, jc) ==
  SelectColumns(a, (IF Truthy(jc) THEN jc.cols ELSE <<>>) \o UnqColumns(a, b))

(***************************************************************************)
(* Comparison(df1, df2, ...): the constructor of module "core" or          *)
(* "compare" (core.py 58-104, compare.py 45-82).  It works on the caller's *)
(* frames in place, so the frames it leaves are part of the result.        *)
(***************************************************************************)
NoFrame == [columns |-> <<>>, dtypes |-> <<>>, rows |-> <<>>]
NoObject ==
  [module |-> "", error |-> "", join_columns |-> NoJoin, on_index |-> FALSE,
   intersect_rows |-> <<>>, df1_unq_rows |-> <<>>, df2_unq_rows |-> <<>>,
   diverging_subset |-> [columns |-> <<>>, rows |-> <<>>],
   df1_unq_columns |-> NoFrame, df2_unq_columns |-> NoFrame,
   compared |-> <<>>]

\* _preprocess_int_missing on the tables the ignore list left: the tables as
\* the loop leaves them, and whether it raised
Preprocessed(a1, b1, jc) ==
  LET pcols == PreprocessColumns(a1, b1, jc)
  IN [df1 |-> PreprocessIntMissing(a1, PreprocessVisited(a1, b1, pcols, 1)),
      df2 |-> PreprocessIntMissing(b1, PreprocessVisited(a1, b1, pcols, 2)),
      raised |-> PreprocessStops(a1, b1, pcols) # 0]

\* the object and the tables the constructor leaves: ir, mcols, unq1 and unq2
\* are datacompy's intersect_rows, the columns it compared, df1_unq_rows and
\* df2_unq_rows
ObjectOf(base, a2, b2, jc, raised, ir, mcols, unq1, unq2) ==
  [df1 |-> a2, df2 |-> b2,
   obj |->
     IF raised # "" THEN [base EXCEPT !.error = raised]
     ELSE IF EnhancedRaises(ir, mcols)
     THEN [base EXCEPT !.error = "TypeError", !.intersect_rows = ir,
                       !.df1_unq_rows = unq1, !.df2_unq_rows = unq2]
     ELSE [base EXCEPT !.intersect_rows = ir,
                       !.df1_unq_rows = unq1, !.df2_unq_rows = unq2,
                       !.diverging_subset =
                          DivergingSubset(ir, IntersectColumns(a2, b2), jc),
                       !.df1_unq_columns = UnqColumnsDf(a2, b2, jc),
                       !.df2_unq_columns = UnqColumnsDf(b2, a2, jc),
                       !.compared = mcols]]

\* _compare and _enhanced_compare on the preprocessed tables
CompareTables(module, a2, b2, ar, preprocessRaised) ==
  LET jc == ar.join_columns
      oi == HandleJoin(module, jc, ar.on_index)
      \* compare.py has no abs_tol / rel_tol and passes none on
      atol == IF module = "core" THEN ar.abs_tol ELSE 0
      rtol == IF module = "core" THEN ar.rel_tol ELSE 0
  IN ObjectOf(
       [NoObject EXCEPT !.module = module, !.join_columns = jc, !.on_index = oi],
       a2, b2, jc,
       IF preprocessRaised THEN "TypeError" ELSE CompareRaises(a2, b2, jc, oi),
       IntersectRows(a2, b2, jc, oi, rtol, atol, ar.ignore_spaces, ar.ignore_case),
       MatchColumns(a2, b2, jc, oi),
       UnqRows(a2, b2, jc, oi, "left_only"),
       UnqRows(a2, b2, jc, oi, "right_only"))

Comparison(module, a, b, ar) ==
  LET p == Preprocessed(IgnoreDf1(a, b, ar.ignore_columns),
                        IgnoreDf2(a, b, ar.ignore_columns), ar.join_columns)
  IN CompareTables(module, p.df1, p.df2, ar, p.raised)

(***************************************************************************)
(* Comparison.report (core.py 247-256, compare.py 169-177): the numbers of *)
(* datacompy's Compare.report().  a and b are self.df1 and self.df2 as     *)
(* they are when report() is called; the Compare object holds the very     *)
(* frames it was given, and reads their shape and their columns anew.      *)
(***************************************************************************)
\* a faulty count that takes a row as unequal only when all its compared
\* columns are
CountMatchingRowsAny(a, b, o) ==
  LET now == {c \in Range(IntersectColumns(a, b)) : c \notin Range(o.join_columns.cols)}
  IN Cardinality({k \in DOMAIN o.intersect_rows :
                    \E c \in now \cap Range(o.compared) : o.intersect_rows[k].match[c] = "T"})

\* Compare.count_matching_rows(): the rows of intersect_rows whose <col>_match
\* is True for every column of intersect_columns() that is no join column
CountMatchingRows(a, b, o) ==
  LET now == {c \in Range(IntersectColumns(a, b)) : c \notin Range(o.join_columns.cols)}
  IN Cardinality({k \in DOMAIN o.intersect_rows :
                    \A c \in now \cap Range(o.compared) : o.intersect_rows[k].match[c] = "T"})

\* column_stats[col]["unequal_cnt"]: row_cnt - match_cnt
UnequalCnt(o, c) ==
  Cardinality({k \in DOMAIN o.intersect_rows : o.intersect_rows[k].match[c] # "T"})

Report(a, b, o) ==
  LET now == {c \in Range(IntersectColumns(a, b)) : c \notin Range(o.join_columns.cols)}
  IN [error |-> IF now \subseteq Range(o.compared) THEN "" ELSE "KeyError",
      df1_columns |-> Len(a.columns), df1_rows |-> NRows(a),
      df2_columns |-> Len(b.columns), df2_rows |-> NRows(b),
      columns_in_common |-> Len(IntersectColumns(a, b)),
      df1_only_columns |-> Len(UnqColumns(a, b)),
      df2_only_columns |-> Len(UnqColumns(b, a)),
      rows_in_common |-> Len(o.intersect_rows),
      df1_only_rows |-> Len(o.df1_unq_rows),
      df2_only_rows |-> Len(o.df2_unq_rows),
      rows_unequal |-> Len(o.intersect_rows) - CountMatchingRows(a, b, o),
      rows_equal |-> CountMatchingRows(a, b, o),
      columns_unequal |-> Cardinality({c \in Range(o.compared) : UnequalCnt(o, c) > 0}),
      values_unequal |->
        Cardinality({kc \in (DOMAIN o.intersect_rows) \X Range(o.compared) :
                       o.intersect_rows[kc[1]].match[kc[2]] # "T"})]

(***************************************************************************)
(* The callers' inputs                                                     *)
(***************************************************************************)
(* Comparison.intersect_columns (core.py 289-293).  The class of           *)
(* compare.py defines report, diverging_subset, df1_unq_columns,           *)
(* df2_unq_columns, df1_unq_rows, df2_unq_rows, report_to_txt and          *)
(* deltas_to_excel (compare.py 169-217) and no intersect_columns: the call *)
(* on its objects raises AttributeError.                                   *)
(***************************************************************************)
\* a and b are self.df1 and self.df2 as they are when the accessor is called
intersect_columns(module, a, b) ==
  IF module = "compare" THEN [error |-> "AttributeError", value |-> <<>>]
  ELSE [error |-> "", value |-> IntersectColumns(a, b)]

(***************************************************************************)
(* utils.load_from_file under its decorator decoding_handler (utils.py     *)
(* 10-18, 31-39).  A file is [ext, utf8, table]: its extension, whether    *)
(* its bytes are valid UTF-8, and the table it holds.  An encoding is      *)
(* "None" (pandas then reads UTF-8) or a codec name.                       *)
(***************************************************************************)
\* the undecorated loader: the exception it raises, "" if none.  Every byte
\* string decodes as ISO-8859-1; read_excel takes no encoding; a file of
\* another extension leaves df unbound
LoaderRaises(file, encoding) ==
  IF file.ext \in {"csv", "json"}
  THEN IF encoding \in {"None", "utf-8"} /\ ~file.utf8 THEN "UnicodeDecodeError" ELSE ""
  ELSE IF file.ext \in {"xlsx", "xls"} THEN "" ELSE "UnboundLocalError"

\* how the caller passes encoding: load_from_file(f, enc), load_from_file(f,
\* encoding=enc) or load_from_file(f)
CallStyles == {"positional", "keyword", "omitted"}

\* inner_loader(*args, **kwargs): calls lists the encodings the loader's body
\* ran with.  The retry loader(*args, **kwargs, encoding="ISO-8859-1") binds
\* encoding a second time when args or kwargs already hold it, and Python
\* raises TypeError before the body runs
InnerLoader(file, style, encoding) ==
  LET enc == IF style = "omitted" THEN "None" ELSE encoding
      first == LoaderRaises(file, enc)
      retry == LoaderRaises(file, "ISO-8859-1")
  IN IF first = "" THEN [error |-> "", calls |-> <<enc>>, df |-> file.table]
     ELSE IF first # "UnicodeDecodeError"
          THEN [error |-> first, calls |-> <<enc>>, df |-> NoFrame]
     ELSE IF style # "omitted"
          THEN [error |-> "TypeError", calls |-> <<enc>>, df |-> NoFrame]
     ELSE [error |-> retry, calls |-> <<enc, "ISO-8859-1">>,
           df |-> IF retry = "" THEN file.table ELSE NoFrame]

NoLoad == [style |-> "", encoding |-> "", utf8 |-> TRUE,
           result |-> [error |-> "", calls |-> <<>>, df |-> NoFrame]]

(***************************************************************************)
(* app.cli (app.py 21-109), which builds the Comparison of compare.py      *)
(* (app.py 4).  A run is [pc, verbose, txt, html, steps, files, echoed,    *)
(* failed, exit]: the steps started, the report files written, the errors  *)
(* printed with click.echo, the step that raised and the exit status: -1   *)
(* while the process runs, 0 when cli returns, 255 after quit(-1) and 1    *)
(* after an uncaught exception.                                            *)
(***************************************************************************)
\* the public methods of the two Comparison classes (core.py 247-423,
\* compare.py 169-217)
Methods(module) ==
  IF module = "core"
  THEN {"report", "diverging_subset", "df1_unq_columns", "df2_unq_columns",
        "df1_unq_rows", "df2_unq_rows", "intersect_columns", "intersect_rows",
        "report_to_txt", "report_to_html", "report_to_xlsx"}
  ELSE {"report", "diverging_subset", "df1_unq_columns", "df2_unq_columns",
        "df1_unq_rows", "df2_unq_rows", "report_to_txt", "deltas_to_excel"}

NoCli == [pc |-> "off", verbose |-> FALSE, txt |-> FALSE, html |-> FALSE,
          steps |-> <<>>, files |-> {}, echoed |-> <<>>, failed |-> "", exit |-> -1]

\* the options cli can pass on: join columns or else on_index, no tolerances
FromCommandLine(ar) ==
  /\ ar.abs_tol = 0 /\ ar.rel_tol = 0
  /\ IF ar.join_columns.none THEN ar.on_index
     ELSE ar.join_columns.cols # <<>> /\ ~ar.on_index

\* a run that is over
Exited(run, status) == [run EXCEPT !.pc = "exited", !.exit = status]

\* a faulty handler that prints the error and goes on, as
\* utils.cli_exception_handler does
ReportStepSwallowed(run, step, method, module, writeFails) ==
  IF run.pc = "exited" THEN run
  ELSE LET raised == IF method \notin Methods(module) THEN "AttributeError"
                     ELSE IF writeFails THEN "OSError" ELSE ""
           started == [run EXCEPT !.steps = Append(@, step)]
       IN IF raised # ""
          THEN [started EXCEPT !.echoed = Append(@, raised), !.failed = step]
          ELSE [started EXCEPT !.files = @ \cup {step}]

\* one "try: comparison.<method>(...) / except Exception as e: click.echo(...);
\* quit(-1)" block of the reporting (app.py 81-87, 89-98, 100-109); nothing of
\* it runs once the process has quit
ReportStep(run, step, method, module, writeFails) ==
  IF run.pc = "exited" THEN run
  ELSE LET raised == IF method \notin Methods(module) THEN "AttributeError"
                     ELSE IF writeFails THEN "OSError" ELSE ""
           started == [run EXCEPT !.steps = Append(@, step)]
       IN IF raised # ""
          THEN Exited([started EXCEPT !.echoed = Append(@, raised), !.failed = step], 255)
          ELSE [started EXCEPT !.files = @ \cup {step}]

\* app.py 76-109: xlsx, then txt if asked for, then html if asked for; the
\* run ends with status 0 when cli returns
Reporting(run, module, txt, html, failing) ==
  LET r0 == [run EXCEPT !.txt = txt, !.html = html]
      r1 == ReportStep(r0, "xlsx", "report_to_xlsx", module, failing = "xlsx")
      r2 == IF txt THEN ReportStep(r1, "txt", "report_to_txt", module, failing = "txt")
            ELSE r1
      r3 == IF html THEN ReportStep(r2, "html", "report_to_html", module, failing = "html")
            ELSE r2
  IN IF r3.pc = "exited" THEN r3 ELSE Exited(r3, 0)

(***************************************************************************)
MaxRows == 2

\* every frame of at most MaxRows rows over a pool of rows
Frames(columns, dtypes, pool) ==
  {[columns |-> columns, dtypes |-> dtypes, rows |-> rows] :
     rows \in UNION {[1..k -> pool] : k \in 0..MaxRows}}

Args(jc, on_index) ==
  [join_columns |-> jc, on_index |-> on_index, ignore_columns |-> <<>>,
   abs_tol |-> 0, rel_tol |-> 0, ignore_spaces |-> FALSE, ignore_case |-> FALSE]

IsInput ==
  /\ pc = "input"
  /\ obj = NoObject
  /\ loaded = NoLoad
  /\ cli = NoCli
  /\ orig1 = df1
  /\ orig2 = df2

\* Joins: key column "id" and one string column "v"; joined on "id", on the
\* empty list or on the index, with every on_index
JoinPool == {[id |-> IntV(k), v |-> StrV(<<c>>)] : k \in {1, 2}, c \in {"a", "b"}}
JoinFrames == Frames(<<"id", "v">>, [id |-> "int64", v |-> "object"], JoinPool)

InitJoin ==
  /\ df1 \in JoinFrames
  /\ df2 \in JoinFrames
  /\ args \in {Args(jc, oi) : jc \in {NoJoin, JoinOn(<<>>), JoinOn(<<"id">>)},
                              oi \in BOOLEAN}
  /\ IsInput

\* Diffs: joined on "id"; a string column "x", a float column "y", a column
\* "p" of df1 alone and a column "q" of df2 alone; df2 orders its columns
\* differently
DiffPool1 ==
  {[id |-> IntV(k), x |-> StrV(cs), y |-> FloatV(104), p |-> StrV(<<"a">>)] :
     k \in {1, 2}, cs \in {<<"a">>, <<"n", "a", "n">>}}
DiffPool2 ==
  {[id |-> IntV(k), x |-> StrV(xy[1]), y |-> xy[2], q |-> StrV(<<"b">>)] :
     k \in {1, 2},
     xy \in {<<<<"a">>, FloatV(104)>>, <<<<"n", "a", "n">>, FloatV(104)>>,
             <<<<"a">>, NaN>>}}

InitDiff ==
  /\ df1 \in Frames(<<"id", "x", "y", "p">>,
                    [id |-> "int64", x |-> "object", y |-> "float64", p |-> "object"],
                    DiffPool1)
  /\ df2 \in Frames(<<"id", "y", "x", "q">>,
                    [id |-> "int64", x |-> "object", y |-> "float64", q |-> "object"],
                    DiffPool2)
  /\ args = Args(JoinOn(<<"id">>), FALSE)
  /\ IsInput

\* Nulls: one column "c" joined on the index; float, string or timestamp on
\* both sides, or a float column beside a string column; the options off, the
\* tolerances on, ignore_spaces and ignore_case on, and all of them on.
\* A float column beside a string column holds no pd.NA on its string side.
NullPool(dtype, side) ==
  CASE dtype = "float64" -> {NaN, FloatV(100), FloatV(104)}
    [] dtype = "object" ->
         {NaN, NA, None, StrV(IF side = 1 THEN <<"a">> ELSE <<"A", " ">>)}
    [] dtype = "strings" -> {NaN, StrV(<<"a">>)}
    [] dtype = "datetime64" -> {NaT, TsV(8)}
NullDtype(d) == IF d = "strings" THEN "object" ELSE d
NullSchemas ==
  {<<"float64", "float64">>, <<"object", "object">>, <<"datetime64", "datetime64">>,
   <<"float64", "strings">>, <<"strings", "float64">>}
NullArgs ==
  {[Args(NoJoin, TRUE) EXCEPT !.abs_tol = t[1], !.rel_tol = t[2],
                              !.ignore_spaces = f, !.ignore_case = f] :
     t \in {<<0, 0>>, <<5, 57>>}, f \in BOOLEAN}

InitNull ==
  /\ \E sch \in NullSchemas :
       /\ df1 \in Frames(<<"c">>, [c |-> NullDtype(sch[1])],
                         {[c |-> v] : v \in NullPool(sch[1], 1)})
       /\ df2 \in Frames(<<"c">>, [c |-> NullDtype(sch[2])],
                         {[c |-> v] : v \in NullPool(sch[2], 2)})
  /\ args \in NullArgs
  /\ IsInput

\* Tolerances: one float column "x" joined on the index, beside a column "p"
\* of df1 alone and a column "q" of df2 alone; abs_tol 0 or 0.5, rel_tol 0
\* or 0.057
TolValues == {FloatV(100), FloatV(104), FloatV(105), FloatV(106)}

InitTol ==
  /\ df1 \in Frames(<<"x", "p">>, [x |-> "float64", p |-> "object"],
                    {[x |-> f, p |-> StrV(<<"a">>)] : f \in TolValues})
  /\ df2 \in Frames(<<"q", "x">>, [x |-> "float64", q |-> "object"],
                    {[x |-> f, q |-> StrV(<<"b">>)] : f \in TolValues})
  /\ args \in {[Args(NoJoin, TRUE) EXCEPT !.abs_tol = a, !.rel_tol = r] :
                 a \in {0, 5}, r \in {0, 57}}
  /\ IsInput

\* Ignore lists: columns "id" and "x" on both sides, "p" in df1 alone and
\* "q" in df2 alone; joined on "id", on "id" and "x", on "p", or on the
\* index; the ignore list names columns of both tables, of one table, of
\* neither ("z"), and the key column
IgnorePool == {[id |-> IntV(1), x |-> StrV(<<"a">>)], [id |-> IntV(1), x |-> StrV(<<"b">>)],
               [id |-> IntV(2), x |-> StrV(<<"a">>)]}
IgnoreFrames(own, columns) ==
  Frames(columns, [id |-> "int64", x |-> "object"] @@ (own :> "object"),
         {r @@ (own :> StrV(<<own>>)) : r \in IgnorePool})
IgnoreArgs ==
  {[Args(JoinOn(<<"id">>), FALSE) EXCEPT !.ignore_columns = ig] :
     ig \in {<<>>, <<"x">>, <<"p">>, <<"q">>, <<"z">>, <<"x", "z">>, <<"x", "p">>,
             <<"p", "q">>, <<"id">>, <<"id", "p">>, <<"id", "q">>}}
  \cup {[Args(NoJoin, TRUE) EXCEPT !.ignore_columns = ig] :
          ig \in {<<"x">>, <<"x", "z">>, <<"q">>}}
  \cup {[Args(JoinOn(<<"p">>), FALSE) EXCEPT !.ignore_columns = ig] :
          ig \in {<<>>, <<"x">>}}
  \cup {[Args(JoinOn(<<"id", "x">>), FALSE) EXCEPT !.ignore_columns = ig] :
          ig \in {<<>>, <<"x">>}}

InitIgnore ==
  /\ df1 \in IgnoreFrames("p", <<"id", "x", "p">>)
  /\ df2 \in IgnoreFrames("q", <<"q", "id", "x">>)
  /\ args \in IgnoreArgs
  /\ IsInput

\* Rows: key column "id", an integer column "n" and a float column "x",
\* joined on "id" or on the index
RowsPool ==
  {[id |-> IntV(k[1]), n |-> IntV(7), x |-> FloatV(k[2])] :
     k \in {<<1, 100>>, <<1, 106>>, <<2, 100>>, <<2, 104>>}}
RowsFrames ==
  Frames(<<"id", "n", "x">>, [id |-> "int64", n |-> "int64", x |-> "float64"], RowsPool)

InitRows ==
  /\ df1 \in RowsFrames
  /\ df2 \in RowsFrames
  /\ args \in {Args(JoinOn(<<"id">>), FALSE), Args(NoJoin, TRUE)}
  /\ IsInput

\* Retypes: float columns only: "k", the key of a key join and a compared
\* column of an index join, "x" on both sides, "p" in df1 alone and "q" in
\* df2 alone; "x" holds integral and fractional values and NaN, or integral
\* values, NaN and 1e19
RetypeValues == {{FloatV(100), FloatV(104), NaN}, {FloatV(100), Float1e19}}
RetypePool(xs) ==
  {[k |-> FloatV(10), x |-> v] : v \in xs} \cup {[k |-> FloatV(20), x |-> NaN]}
RetypeFrames(own, columns) ==
  UNION {Frames(columns, [k |-> "float64", x |-> "float64"] @@ (own :> "float64"),
                {r @@ (own :> FloatV(30)) : r \in RetypePool(xs)}) :
           xs \in RetypeValues}

InitRetype ==
  /\ df1 \in RetypeFrames("p", <<"k", "x", "p">>)
  /\ df2 \in RetypeFrames("q", <<"q", "k", "x">>)
  /\ args \in {Args(JoinOn(<<"k">>), FALSE), Args(NoJoin, TRUE)}
  /\ IsInput

(***************************************************************************)
(* The operations: constructing a Comparison of either module              *)
(***************************************************************************)
New(module) ==
  /\ pc = "input"
  /\ LET c == Comparison(module, df1, df2, args)
     IN /\ df1' = c.df1
        /\ df2' = c.df2
        /\ obj' = c.obj
        /\ pc' = IF c.obj.error = "" THEN "done" ELSE "raised"
  /\ UNCHANGED <<args, orig1, orig2, loaded, cli>>

\* core.Comparison(df1, df2, ...)
NewCore == New("core")

\* compare.Comparison(df1, df2, ...), which takes no abs_tol / rel_tol
NewCompare == args.abs_tol = 0 /\ args.rel_tol = 0 /\ New("compare")

\* The caller changes, in place, the table it passed as df1 after the
\* Comparison is constructed: self.df1 is that very table (core.py 74,
\* compare.py 56), as is the df1 of the datacompy object made from it.
\*   "drop":  df1.drop(columns=[<last column>], inplace=True)
\*   "add":   df1[<first column df2 has alone>] = np.nan
\*   "value": df1.loc[0, <last column>] = np.nan
MutateKinds == {"drop", "add", "value"}
Mutated(df, other, kind) ==
  LET last == df.columns[Len(df.columns)]
      new == UnqColumns(other, df)[1]
  IN CASE kind = "drop" -> Drop(df, <<last>>)
       [] kind = "add" ->
            [columns |-> Append(df.columns, new),
             dtypes |-> (new :> "float64") @@ df.dtypes,
             rows |-> [i \in 1..NRows(df) |-> (new :> NaN) @@ df.rows[i]]]
       [] kind = "value" ->
            [df EXCEPT !.rows[1] = [@ EXCEPT ![last] = NaN]]

Mutate ==
  /\ pc = "done"
  /\ \E kind \in MutateKinds :
       /\ kind = "drop" => Len(df1.columns) > 0
       /\ kind = "add" => Len(UnqColumns(df2, df1)) > 0
       /\ kind = "value" => Len(df1.columns) > 0 /\ NRows(df1) > 0
       /\ df1' = Mutated(df1, df2, kind)
  /\ pc' = "mutated"
  /\ UNCHANGED <<df2, args, obj, orig1, orig2, loaded, cli>>

\* utils.load_from_file called on a .csv file that holds df1
Load ==
  /\ pc = "input"
  /\ \E style \in CallStyles, encoding \in {"None", "ISO-8859-1"}, utf8 \in BOOLEAN :
       /\ style = "omitted" => encoding = "None"
       /\ loaded' = [style |-> style, encoding |-> encoding, utf8 |-> utf8,
                     result |-> InnerLoader([ext |-> "csv", utf8 |-> utf8, table |-> df1],
                                            style, encoding)]
  /\ pc' = "loaded"
  /\ UNCHANGED <<df1, df2, args, obj, orig1, orig2, cli>>

\* app.py 35-54: the two loads, encoding passed by position (None unless -e
\* is given), and the "identical" message; an exception here is not caught.
\* bad is the file that is not valid UTF-8, 0 if none.  With -v and equal
\* tables the message formats os.path.abspath(df1) after df1 was rebound to
\* the table, which raises TypeError
CliLoad ==
  /\ pc = "input"
  /\ FromCommandLine(args)
  /\ \E verbose \in BOOLEAN, bad \in 0..2 :
       LET l1 == InnerLoader([ext |-> "csv", utf8 |-> bad # 1, table |-> df1],
                             "positional", "None")
           l2 == InnerLoader([ext |-> "csv", utf8 |-> bad # 2, table |-> df2],
                             "positional", "None")
           run == [NoCli EXCEPT !.pc = "loaded", !.verbose = verbose]
       IN cli' = IF l1.error # ""
                 THEN Exited([run EXCEPT !.steps = <<"load1">>, !.failed = "load1"], 1)
                 ELSE IF l2.error # ""
                 THEN Exited([run EXCEPT !.steps = <<"load1", "load2">>,
                                          !.failed = "load2"], 1)
                 ELSE IF l1.df = l2.df /\ verbose
                 THEN Exited([run EXCEPT !.steps = <<"load1", "load2">>,
                                          !.failed = "identical"], 1)
                 ELSE [run EXCEPT !.steps = <<"load1", "load2">>]
  /\ pc' = "cli"
  /\ UNCHANGED <<df1, df2, args, obj, orig1, orig2, loaded>>

\* app.py 56-74: the Comparison of compare.py; an exception is printed and the
\* process quits
CliBuild ==
  /\ pc = "cli"
  /\ cli.pc = "loaded"
  /\ LET c == Comparison("compare", df1, df2, args)
         run == [cli EXCEPT !.steps = Append(@, "build")]
     IN /\ df1' = c.df1
        /\ df2' = c.df2
        /\ obj' = c.obj
        /\ cli' = IF c.obj.error # ""
                  THEN Exited([run EXCEPT !.echoed = Append(@, c.obj.error),
                                           !.failed = "build"], 255)
                  ELSE [run EXCEPT !.pc = "built"]
  /\ UNCHANGED <<args, pc, orig1, orig2, loaded>>

\* app.py 76-109: the reports; failing is the report whose file cannot be
\* written
CliReport ==
  /\ pc = "cli"
  /\ cli.pc = "built"
  /\ \E txt \in BOOLEAN, html \in BOOLEAN, failing \in {"", "xlsx", "txt", "html"} :
       cli' = Reporting(cli, obj.module, txt, html, failing)
  /\ UNCHANGED <<df1, df2, args, pc, obj, orig1, orig2, loaded>>

Next == NewCore \/ NewCompare \/ Mutate \/ Load \/ CliLoad \/ CliBuild \/ CliReport

SpecJoin == InitJoin /\ [][Next]_vars
SpecDiff == InitDiff /\ [][Next]_vars
SpecNull == InitNull /\ [][Next]_vars
SpecTol == InitTol /\ [][Next]_vars
SpecIgnore == InitIgnore /\ [][Next]_vars
SpecRows == InitRows /\ [][Next]_vars
SpecRetype == InitRetype /\ [][Next]_vars

(***************************************************************************)
(* Properties                                                              *)
(***************************************************************************)
Done == pc = "done"
Constructed == pc \in {"done", "raised"}
KeyJoin == Truthy(obj.join_columns)
KeyColumns == Range(obj.join_columns.cols)

\* the intersecting columns that are not join columns
NonKeyIntersect == (ColSet(df1) \cap ColSet(df2)) \ KeyColumns

\* the rows of the diverging subset with row l of df1, and its cell of column c
SubsetRowsOf(l) == {row \in Range(obj.diverging_subset.rows) : row.l = l}
HasDelta(l, c) ==
  \E row \in SubsetRowsOf(l) :
     c \in Range(obj.diverging_subset.columns) /\ row.cells[c].t = "str"

StartsWith(cs, pre) == Len(cs) >= Len(pre) /\ SubSeq(cs, 1, Len(pre)) = pre
EndsWith(cs, suf) ==
  Len(cs) >= Len(suf) /\ SubSeq(cs, Len(cs) - Len(suf) + 1, Len(cs)) = suf
Arrow == <<"}", " ", "-", "-", ">", " ", "{">>

\* C1: the diverging subset holds exactly the matched rows in which some
\* intersecting non-key column mismatches, each once, and besides the key
\* columns exactly the intersecting non-key columns that mismatch in some
\* matched row, each once.
C1_MinimalDiff ==
  Done =>
    LET ir == Range(obj.intersect_rows)
        ds == obj.diverging_subset
        bad == {q \in ir : \E c \in NonKeyIntersect : q.match[c] = "F"}
    IN /\ {<<row.l, row.r>> : row \in Range(ds.rows)} = {<<q.l, q.r>> : q \in bad}
       /\ Len(ds.rows) = Cardinality(bad)
       /\ Range(ds.columns) =
            KeyColumns \cup {c \in NonKeyIntersect : \E q \in ir : q.match[c] = "F"}
       /\ Len(ds.columns) = Cardinality(Range(ds.columns))

\* C1's case: a matched row with no mismatch beside one with a mismatch, and
\* an intersecting column with no mismatch beside a diverging one
C1_Witness ==
  /\ Done
  /\ Len(obj.diverging_subset.rows) >= 1
  /\ Len(obj.intersect_rows) > Len(obj.diverging_subset.rows)
  /\ \E c \in NonKeyIntersect : c \notin Range(obj.diverging_subset.columns)
  /\ \E c \in NonKeyIntersect : c \in Range(obj.diverging_subset.columns)

\* the text a cell is claimed to hold for a df1 value l and a df2 value r: a
\* null is the empty text, any other value the text of the value
ClaimedText(v) == IF IsNull(v) THEN <<>> ELSE AsStr(v)
ClaimedDelta(l, r) == StrV(<<"{">> \o ClaimedText(l) \o Arrow \o ClaimedText(r) \o <<"}">>)

\* C2: in every row of the diverging subset a mismatching cell of a diverging
\* column holds exactly "{<left value>} --> {<right value>}", a matching cell
\* of a diverging column holds null, and a key cell holds the key value.
C2_CellFormat ==
  Done =>
    \A q \in Range(obj.intersect_rows) : \A row \in SubsetRowsOf(q.l) :
      \A c \in Range(obj.diverging_subset.columns) :
        IF c \in KeyColumns THEN row.cells[c] = orig1.rows[q.l][c]
        ELSE IF q.match[c] = "F"
             THEN row.cells[c] = ClaimedDelta(orig1.rows[q.l][c], orig2.rows[q.r][c])
             ELSE IsNull(row.cells[c])

\* C3 as claimed: a null of any kind on the left gives "{} --> {...", a null
\* of any kind on the right gives "...} --> {}".
C3_EveryNullEmpty ==
  Done =>
    \A q \in Range(obj.intersect_rows) : \A row \in SubsetRowsOf(q.l) :
      \A c \in Range(obj.diverging_subset.columns) \ KeyColumns :
        q.match[c] = "F" =>
          /\ IsNull(q.row1[c]) => StartsWith(row.cells[c].s, <<"{">> \o Arrow)
          /\ IsNull(q.row2[c]) => EndsWith(row.cells[c].s, Arrow \o <<"}">>)

\* C3 amended: a null held as NaN or pd.NA is the empty text in its braces;
\* a null timestamp is the text NaT and a None the text None.
C3_NullRendering ==
  Done =>
    \A q \in Range(obj.intersect_rows) : \A row \in SubsetRowsOf(q.l) :
      \A c \in Range(obj.diverging_subset.columns) \ KeyColumns :
        q.match[c] = "F" =>
          LET text == row.cells[c].s
              shown(v) == IF v.t \in {"nan", "NA"} THEN <<>> ELSE AsStr(v)
          IN /\ row.cells[c].t = "str"
             /\ IsNull(q.row1[c]) =>
                  StartsWith(text, <<"{">> \o shown(q.row1[c]) \o Arrow)
             /\ IsNull(q.row2[c]) =>
                  EndsWith(text, Arrow \o shown(q.row2[c]) \o <<"}">>)

\* C3's case: deltas with a NaN / pd.NA null and with a NaT null
C3_Witness ==
  /\ Done
  /\ \E q \in Range(obj.intersect_rows) :
       HasDelta(q.l, "c") /\ q.row1["c"].t = "NA" /\ ~IsNull(q.row2["c"])
  /\ \E q \in Range(obj.intersect_rows) :
       HasDelta(q.l, "c") /\ q.row2["c"].t = "nan" /\ ~IsNull(q.row1["c"])

\* the positions of the rows of a table as passed that hold a key, in order
GroupOf(df, key) ==
  SelectSeq(Indices(NRows(df)), LAMBDA i : KeyOf(df, obj.join_columns, i) = key)
AllKeys ==
  {KeyOf(orig1, obj.join_columns, i) : i \in 1..NRows(orig1)}
    \cup {KeyOf(orig2, obj.join_columns, j) : j \in 1..NRows(orig2)}
MatchedPairs == {<<q.l, q.r>> : q \in Range(obj.intersect_rows)}
UnqPositions(rows) == {u.pos : u \in Range(rows)}

\* C4: under a key join the n-th row of df1 with a key is matched with the
\* n-th row of df2 with that key and with no other, and the rows a side has
\* beyond the other side's count for that key are unique rows of that side.
C4_DuplicateKeys ==
  (Done /\ KeyJoin) =>
    \A key \in AllKeys :
      LET g1 == GroupOf(orig1, key)
          g2 == GroupOf(orig2, key)
      IN /\ \A n \in 1..Len(g1) :
              IF n <= Len(g2)
              THEN /\ \A j \in 1..NRows(orig2) :
                        <<g1[n], j>> \in MatchedPairs <=> j = g2[n]
                   /\ g1[n] \notin UnqPositions(obj.df1_unq_rows)
              ELSE /\ \A j \in 1..NRows(orig2) : <<g1[n], j>> \notin MatchedPairs
                   /\ g1[n] \in UnqPositions(obj.df1_unq_rows)
         /\ \A n \in 1..Len(g2) :
              IF n <= Len(g1)
              THEN /\ \A i \in 1..NRows(orig1) :
                        <<i, g2[n]>> \in MatchedPairs <=> i = g1[n]
                   /\ g2[n] \notin UnqPositions(obj.df2_unq_rows)
              ELSE /\ \A i \in 1..NRows(orig1) : <<i, g2[n]>> \notin MatchedPairs
                   /\ g2[n] \in UnqPositions(obj.df2_unq_rows)

\* C4's case: a key held twice by one side and once by the other
C4_Witness ==
  /\ Done
  /\ KeyJoin
  /\ \E key \in AllKeys :
       /\ Len(GroupOf(orig1, key)) = 2
       /\ Len(GroupOf(orig2, key)) = 1
       /\ Len(obj.intersect_rows) = 1
       /\ Len(obj.df1_unq_rows) = 1

Count(seq, Test(_)) == Cardinality({k \in DOMAIN seq : Test(seq[k])})

\* C5: every row of df1 is in exactly one of the matched rows and df1's
\* unique rows, every row of df2 in exactly one of the matched rows and
\* df2's unique rows; matched rows hold equal keys (the same index label
\* under an index join), and a row whose key the other side lacks is unique.
C5_Partition ==
  Done =>
    /\ \A i \in 1..NRows(orig1) :
         Count(obj.intersect_rows, LAMBDA q : q.l = i)
           + Count(obj.df1_unq_rows, LAMBDA u : u.pos = i) = 1
    /\ \A j \in 1..NRows(orig2) :
         Count(obj.intersect_rows, LAMBDA q : q.r = j)
           + Count(obj.df2_unq_rows, LAMBDA u : u.pos = j) = 1
    /\ Len(obj.intersect_rows) + Len(obj.df1_unq_rows) = NRows(orig1)
    /\ Len(obj.intersect_rows) + Len(obj.df2_unq_rows) = NRows(orig2)
    /\ \A q \in Range(obj.intersect_rows) :
         /\ q.l \in 1..NRows(orig1)
         /\ q.r \in 1..NRows(orig2)
         /\ IF KeyJoin
            THEN KeyOf(orig1, obj.join_columns, q.l) = KeyOf(orig2, obj.join_columns, q.r)
            ELSE q.l = q.r
    /\ KeyJoin =>
         /\ \A i \in 1..NRows(orig1) :
              GroupOf(orig2, KeyOf(orig1, obj.join_columns, i)) = <<>>
                => i \in UnqPositions(obj.df1_unq_rows)
         /\ \A j \in 1..NRows(orig2) :
              GroupOf(orig1, KeyOf(orig2, obj.join_columns, j)) = <<>>
                => j \in UnqPositions(obj.df2_unq_rows)

\* C5's case: matched rows, unique rows of df1 and unique rows of df2 at once
C5_Witness ==
  /\ Done
  /\ KeyJoin
  /\ obj.intersect_rows # <<>>
  /\ obj.df1_unq_rows # <<>>
  /\ obj.df2_unq_rows # <<>>

\* C6: constructed without join_columns, a Comparison of either module is
\* an index-to-index comparison, whatever on_index is.
C6_UnspecifiedJoin ==
  (Constructed /\ args.join_columns.none) =>
    /\ Done
    /\ obj.on_index
    /\ MatchedPairs =
         {<<i, i>> : i \in (1..NRows(orig1)) \cap (1..NRows(orig2))}

\* C6 for core.Comparison alone
C6_CoreUnspecifiedJoin == obj.module = "core" => C6_UnspecifiedJoin

\* the comparison of the same tables with the same arguments, df1 and df2
\* exchanged
Swapped == Comparison(obj.module, orig2, orig1, args).obj

\* text "{A} --> {B}" against text "{B} --> {A}"
IsSwapOf(t1, t2) ==
  \E k \in 2..Len(t1) :
     /\ k + Len(Arrow) <= Len(t1)
     /\ SubSeq(t1, k, k + Len(Arrow) - 1) = Arrow
     /\ t2 = <<"{">> \o SubSeq(t1, k + Len(Arrow), Len(t1) - 1) \o Arrow
               \o SubSeq(t1, 2, k - 1) \o <<"}">>

\* the comparison with df1 and df2 exchanged has the unique columns and the
\* unique rows of the two sides exchanged, and the same diverging rows and
\* columns with the two values of every delta exchanged
SwapSymmetric ==
  LET sw == Swapped
      ds == obj.diverging_subset
      ds2 == sw.diverging_subset
  IN /\ sw.error = ""
     /\ obj.df1_unq_columns = sw.df2_unq_columns
     /\ obj.df2_unq_columns = sw.df1_unq_columns
     /\ {<<u.pos, u.row>> : u \in Range(obj.df1_unq_rows)}
          = {<<u.pos, u.row>> : u \in Range(sw.df2_unq_rows)}
     /\ {<<u.pos, u.row>> : u \in Range(obj.df2_unq_rows)}
          = {<<u.pos, u.row>> : u \in Range(sw.df1_unq_rows)}
     /\ Range(ds.columns) = Range(ds2.columns)
     /\ {<<row.l, row.r>> : row \in Range(ds.rows)}
          = {<<row.r, row.l>> : row \in Range(ds2.rows)}
     /\ \A row \in Range(ds.rows) : \A row2 \in Range(ds2.rows) :
          (row.l = row2.r /\ row.r = row2.l) =>
            \A c \in Range(ds.columns) \ KeyColumns :
              IF row.cells[c].t = "str"
              THEN row2.cells[c].t = "str" /\ IsSwapOf(row.cells[c].s, row2.cells[c].s)
              ELSE row2.cells[c] = row.cells[c]

\* C7 as claimed: exchanging df1 and df2 exchanges the sides of the result,
\* for every tolerance.
C7_SwapEveryTolerance == Done => SwapSymmetric

\* C7 amended: with no ignore list and rel_tol = 0, for every abs_tol,
\* exchanging df1 and df2 exchanges the unique columns and the unique rows of
\* the two sides and keeps the diverging rows and columns, the two values of
\* every delta exchanged.
C7_SwapAbsoluteTolerance ==
  (Done /\ args.rel_tol = 0 /\ args.ignore_columns = <<>>) => SwapSymmetric

\* C7's case: under an absolute tolerance, a delta, a unique row and unique
\* columns to exchange
C7_Witness ==
  /\ Done
  /\ args.rel_tol = 0
  /\ args.abs_tol > 0
  /\ obj.diverging_subset.rows # <<>>
  /\ obj.df1_unq_rows # <<>>
  /\ obj.df1_unq_columns.columns # <<>>
  /\ Swapped.diverging_subset.rows # <<>>

\* |a - b| <= abs_tol + rel_tol * |b| over the values as passed (tenths, and
\* rel_tol in thousandths)
WithinTolerance(a, b) ==
  1000 * Abs(a.n - b.n) <= 1000 * args.abs_tol + args.rel_tol * Abs(b.n)

\* C8: two non-null numeric cells of a matched row are equal, and give no
\* delta, exactly when |a - b| <= abs_tol + rel_tol * |b|, a the df1 value and
\* b the df2 value.
C8_ToleranceFormula ==
  Done =>
    \A q \in Range(obj.intersect_rows) :
      LET a == orig1.rows[q.l]["x"]
          b == orig2.rows[q.r]["x"]
      IN /\ q.match["x"] = "T" <=> WithinTolerance(a, b)
         /\ HasDelta(q.l, "x") <=> ~WithinTolerance(a, b)

\* C8's case: a pair within rel_tol * |b| but not within rel_tol * |a|, and a
\* pair exactly at the absolute tolerance
C8_Witness ==
  /\ Done
  /\ args.rel_tol > 0
  /\ \E q \in Range(obj.intersect_rows) :
       /\ orig1.rows[q.l]["x"] = FloatV(100)
       /\ orig2.rows[q.r]["x"] = FloatV(106)
       /\ args.abs_tol = 0
       /\ q.match["x"] = "T"
  /\ \E q \in Range(obj.intersect_rows) :
       /\ orig1.rows[q.l]["x"] = FloatV(106)
       /\ orig2.rows[q.r]["x"] = FloatV(100)
       /\ HasDelta(q.l, "x")

\* the rows of the tables as passed matched with abs_tol = 0.5 and no
\* relative tolerance, 10.0 on the left
HalfTolerance == Done /\ args.abs_tol = 5 /\ args.rel_tol = 0
TenLeft(q) == orig1.rows[q.l]["x"] = FloatV(100)
TenPointZero == <<"{", "1", "0", ".", "0", "}">>
TenPointSix == <<"{", "1", "0", ".", "6", "}">>
TenRetyped == <<"{", "1", "0", "}">>
Gap == <<" ", "-", "-", ">", " ">>

\* C9 as claimed: with abs_tol = 0.5, 10.0 against 10.4 gives no delta and
\* 10.0 against 10.6 gives exactly the delta "{10.0} --> {10.6}".
C9_RenderedAsPassed ==
  HalfTolerance =>
    \A q \in Range(obj.intersect_rows) : \A row \in SubsetRowsOf(q.l) :
      (TenLeft(q) /\ orig2.rows[q.r]["x"] = FloatV(106)) =>
        row.cells["x"] = StrV(TenPointZero \o Gap \o TenPointSix)

\* C9 amended: with abs_tol = 0.5, 10.0 against 10.4 compares equal and gives
\* no delta; 10.0 against 10.6 compares unequal and gives the delta
\* "{10.0} --> {10.6}" when df1's column holds some value with a fractional
\* part, and "{10} --> {10.6}" when every value of df1's column is integral.
C9_AbsTolExample ==
  HalfTolerance =>
    \A q \in Range(obj.intersect_rows) :
      TenLeft(q) =>
        /\ orig2.rows[q.r]["x"] = FloatV(104) =>
             q.match["x"] = "T" /\ ~HasDelta(q.l, "x")
        /\ orig2.rows[q.r]["x"] = FloatV(106) =>
             /\ q.match["x"] = "F"
             /\ \E row \in SubsetRowsOf(q.l) :
                  row.cells["x"] =
                    IF \A i \in 1..NRows(orig1) : orig1.rows[i]["x"].n % 10 = 0
                    THEN StrV(TenRetyped \o Gap \o TenPointSix)
                    ELSE StrV(TenPointZero \o Gap \o TenPointSix)

\* C9's case: 10.0 against 10.4 and 10.0 against 10.6 in one comparison
C9_Witness ==
  /\ HalfTolerance
  /\ \E q \in Range(obj.intersect_rows) :
       TenLeft(q) /\ orig2.rows[q.r]["x"] = FloatV(104) /\ ~HasDelta(q.l, "x")
  /\ \E q \in Range(obj.intersect_rows) :
       TenLeft(q) /\ orig2.rows[q.r]["x"] = FloatV(106) /\ HasDelta(q.l, "x")

\* C9's other case: 10.0 against 10.6 in a column of df1 that also holds 10.4
C9_FractionalWitness ==
  /\ HalfTolerance
  /\ \E i \in 1..NRows(orig1) : orig1.rows[i]["x"] = FloatV(104)
  /\ \E q \in Range(obj.intersect_rows) :
       TenLeft(q) /\ orig2.rows[q.r]["x"] = FloatV(106) /\ HasDelta(q.l, "x")

\* the rows both tables as passed have under an index join
SharedRows == (1..NRows(orig1)) \cap (1..NRows(orig2))

\* for every matched row of a constructed comparison: null on both sides, no
\* delta; null on exactly one side, a delta
NullsUniform ==
  \A i \in SharedRows :
    LET a == orig1.rows[i]["c"]
        b == orig2.rows[i]["c"]
    IN /\ (IsNull(a) /\ IsNull(b)) => ~HasDelta(i, "c")
       /\ (IsNull(a) # IsNull(b)) => HasDelta(i, "c")

\* C10: for every column type and every setting of the tolerances,
\* ignore_spaces and ignore_case, a cell of a matched row that is null on both
\* sides yields no delta and a cell that is null on exactly one side yields a
\* delta.
C10_UniformNulls == Constructed => NullsUniform

\* C10 over the constructions that return
C10_UniformNullsWhenDone == Done => NullsUniform

\* the columns of the outputs of a constructed comparison
OutputColumns ==
  Range(obj.diverging_subset.columns) \cup Range(obj.df1_unq_columns.columns)
    \cup Range(obj.df2_unq_columns.columns)
Ignored == Range(args.ignore_columns)

\* C11: whatever the ignore list names, present or absent, the construction
\* does not fail over an absent name, and no ignored column is left in df1,
\* in df2, in the intersecting columns or in any output.
C11_IgnoredRemoved ==
  Constructed =>
    /\ obj.error # "" =>
         \E k \in Range(args.join_columns.cols) :
            k \in Ignored \/ k \notin ColSet(orig1) \/ k \notin ColSet(orig2)
    /\ \A c \in Ignored :
         /\ c \notin ColSet(df1)
         /\ c \notin ColSet(df2)
         /\ c \notin Range(IntersectColumns(df1, df2))
         /\ c \notin OutputColumns

\* C11 for the ignore lists whose names are all columns of both tables
C11_IgnoredRemovedWhenCommon ==
  (Ignored \subseteq (ColSet(orig1) \cap ColSet(orig2))) => C11_IgnoredRemoved

\* no output of a comparison exists
NoResult ==
  /\ obj.intersect_rows = <<>>
  /\ obj.df1_unq_rows = <<>>
  /\ obj.df2_unq_rows = <<>>
  /\ obj.diverging_subset = NoObject.diverging_subset
  /\ obj.df1_unq_columns = NoFrame
  /\ obj.df2_unq_columns = NoFrame
DeclaredKeys == Range(args.join_columns.cols)

\* C12: when a declared key column is not a column of df1 or of df2 once the
\* ignored columns are removed - it is ignored, or was in the table never -
\* the constructor raises the missing-key-column error and gives no result.
C12_MissingKeyColumn ==
  (Constructed /\ \E k \in DeclaredKeys :
                     k \in Ignored \/ k \notin ColSet(orig1) \/ k \notin ColSet(orig2))
    => (pc = "raised" /\ obj.error = "ValueError" /\ NoResult)

\* C12 over the tables as the constructor left them: a declared key column
\* that is no column of df1 or of df2 at the comparison raises the error
C12_MissingKeyColumnAtCompare ==
  (Constructed /\ \E k \in DeclaredKeys : k \notin ColSet(df1) \/ k \notin ColSet(df2))
    => (pc = "raised" /\ obj.error = "ValueError" /\ NoResult)

EmptyKeyList == ~args.join_columns.none /\ args.join_columns.cols = <<>>

ExpectedUnqColumns(asPassed, own, other) ==
  args.join_columns.cols
    \o SelectSeq(asPassed.columns,
                 LAMBDA c : c \in ColSet(own) /\ c \notin ColSet(other))

\* frame holds, for every row of the table as passed, that row's values of
\* the columns cols
HoldsColumnsOf(frame, asPassed, cols) ==
  /\ frame.columns = cols
  /\ Len(frame.rows) = NRows(asPassed)
  /\ \A i \in 1..NRows(asPassed) :
       /\ DOMAIN frame.rows[i] = Range(cols)
       /\ \A c \in Range(cols) : frame.rows[i][c] = asPassed.rows[i][c]

\* C14: df1_unq_columns() holds, for every row of df1, the key columns
\* followed by the columns df1 alone has, in df1's column order (those
\* columns alone under an index join, the key columns alone when df1 has no
\* column of its own); df2_unq_columns() likewise for df2.
C14_UnqColumns ==
  Done =>
    /\ HoldsColumnsOf(obj.df1_unq_columns, orig1, ExpectedUnqColumns(orig1, df1, df2))
    /\ HoldsColumnsOf(obj.df2_unq_columns, orig2, ExpectedUnqColumns(orig2, df2, df1))

\* C14's case: under a key join, a side with no column of its own beside a
\* side with one, and a row of df1 that df2 has no row for
C14_Witness ==
  /\ Done
  /\ obj.df1_unq_columns.columns = <<"id">>
  /\ obj.df2_unq_columns.columns = <<"id", "q">>
  /\ obj.df1_unq_rows # <<>>
  /\ Len(obj.df1_unq_columns.rows) = 2

\* C14's other case: an index join
C14_IndexWitness ==
  /\ Done
  /\ obj.on_index
  /\ obj.df1_unq_columns.columns = <<"p">>
  /\ Len(obj.df1_unq_columns.rows) = 2

\* row i of table own has a counterpart in table other: under a key join it
\* is the n-th row of its key in own and other has n rows of that key; under
\* an index join other has a row i
HasCounterpart(own, other, i) ==
  IF KeyJoin
  THEN LET key == KeyOf(own, obj.join_columns, i)
           before == Cardinality({j \in 1..i : KeyOf(own, obj.join_columns, j) = key})
       IN before <= Len(GroupOf(other, key))
  ELSE i <= NRows(other)

\* the same value, whatever dtype holds it: 7 and 7.0, NaN and <NA>
SameValue(v, w) ==
  IF IsNull(v) \/ IsNull(w) THEN IsNull(v) /\ IsNull(w)
  ELSE IF v.t \in {"int", "float"} /\ w.t \in {"int", "float"} THEN Tenths(v) = Tenths(w)
  ELSE v = w

\* unq holds exactly the rows of table asPassed without a counterpart, in
\* the table's row order, each with the table's columns and values
HoldsUniqueRowsOf(unq, asPassed, working, other) ==
  /\ UnqPositions(unq) = {i \in 1..NRows(asPassed) : ~HasCounterpart(asPassed, other, i)}
  /\ \A k \in DOMAIN unq : \A m \in DOMAIN unq : k < m => unq[k].pos < unq[m].pos
  /\ \A k \in DOMAIN unq :
       /\ DOMAIN unq[k].row = ColSet(working)
       /\ \A c \in ColSet(working) :
            SameValue(unq[k].row[c], asPassed.rows[unq[k].pos][c])

\* a table without its rows at the positions gone
WithoutRows(df, gone) ==
  [df EXCEPT !.rows = [k \in 1..Cardinality((1..NRows(df)) \ gone) |->
       df.rows[CHOOSE i \in (1..NRows(df)) \ gone :
                 Cardinality({j \in (1..i) \ gone : TRUE}) = k]]]

\* the comparison of the tables as passed without their unique rows
WithoutUniqueRows ==
  Comparison(obj.module,
             WithoutRows(orig1, UnqPositions(obj.df1_unq_rows)),
             WithoutRows(orig2, UnqPositions(obj.df2_unq_rows)), args).obj

\* the columns of a diverging subset and the cells of its rows, in order
CellsOf(ds) == [columns |-> ds.columns, rows |-> [k \in DOMAIN ds.rows |-> ds.rows[k].cells]]

\* C15 as claimed: the rows that only one side has do not affect the
\* diverging subset: it is the diverging subset of the tables without them.
C15_DivergingUnaffected ==
  Done => CellsOf(obj.diverging_subset) = CellsOf(WithoutUniqueRows.diverging_subset)

\* C15 amended: df1_unq_rows() holds exactly the rows of df1 without a
\* counterpart in df2, in df1's row order, each with all the columns and the
\* values of df1, and df2_unq_rows() likewise; no row of the diverging subset
\* is made of a unique row.
C15_UnqRows ==
  Done =>
    /\ HoldsUniqueRowsOf(obj.df1_unq_rows, orig1, df1, orig2)
    /\ HoldsUniqueRowsOf(obj.df2_unq_rows, orig2, df2, orig1)
    /\ \A row \in Range(obj.diverging_subset.rows) :
         /\ row.l \notin UnqPositions(obj.df1_unq_rows)
         /\ row.r \notin UnqPositions(obj.df2_unq_rows)

\* C15's case: under a key join a row that df1 alone has, before a row that
\* diverges, and no row that df2 alone has
C15_Witness ==
  /\ Done
  /\ KeyJoin
  /\ Len(obj.df1_unq_rows) = 1
  /\ obj.df2_unq_rows = <<>>
  /\ \E row \in Range(obj.diverging_subset.rows) : row.l > obj.df1_unq_rows[1].pos

\* C15's other case: rows of df1 alone and rows of df2 alone, the integer
\* column of the unique rows held as floats
C15_UpcastWitness ==
  /\ Done
  /\ \E u \in Range(obj.df1_unq_rows) : u.row["n"] = FloatV(70)
  /\ \E u \in Range(obj.df2_unq_rows) : u.row["n"] = FloatV(70)

\* the delta cells of the diverging subset
DeltaCells ==
  {rc \in (DOMAIN obj.diverging_subset.rows)
            \X (Range(obj.diverging_subset.columns) \ KeyColumns) :
     obj.diverging_subset.rows[rc[1]].cells[rc[2]].t = "str"}

\* C16: the counts of report() agree with the outputs of the same
\* Comparison: rows in common = rows unequal + rows equal; rows unequal = the
\* rows of the diverging subset; columns unequal = its non-key columns;
\* values unequal = its delta cells; rows in df1 / df2 only = the rows of
\* df1_unq_rows / df2_unq_rows.
C16_ReportCounts ==
  Done =>
    LET rep == Report(df1, df2, obj)
    IN /\ rep.error = ""
       /\ rep.rows_in_common = rep.rows_unequal + rep.rows_equal
       /\ rep.rows_in_common = Len(obj.intersect_rows)
       /\ rep.rows_unequal = Len(obj.diverging_subset.rows)
       /\ rep.columns_unequal =
            Cardinality(Range(obj.diverging_subset.columns) \ KeyColumns)
       /\ rep.values_unequal = Cardinality(DeltaCells)
       /\ rep.df1_only_rows = Len(obj.df1_unq_rows)
       /\ rep.df2_only_rows = Len(obj.df2_unq_rows)

\* C16's case: a report of one equal row and one unequal row with two
\* unequal values in two columns
C16_Witness ==
  /\ Done
  /\ Report(df1, df2, obj).rows_equal = 1
  /\ Report(df1, df2, obj).rows_unequal = 1
  /\ Report(df1, df2, obj).columns_unequal = 2
  /\ Report(df1, df2, obj).values_unequal = 2

\* C16's other case: a report of rows of df1 alone and of df2 alone
C16_RowsWitness ==
  /\ Done
  /\ Report(df1, df2, obj).df1_only_rows = 1
  /\ Report(df1, df2, obj).df2_only_rows = 2

\* the tables df2 can be reordered to
Reorderings(df) ==
  {[df EXCEPT !.rows = [k \in 1..NRows(df) |-> df.rows[f[k]]]] :
     f \in {g \in [1..NRows(df) -> 1..NRows(df)] :
              \A i, j \in 1..NRows(df) : g[i] = g[j] => i = j}}

\* the positions in df1 of a sequence of result rows
LeftPositions(rows) == [k \in DOMAIN rows |-> rows[k].l]
Increasing(seq) == \A k \in DOMAIN seq : \A m \in DOMAIN seq : k < m => seq[k] < seq[m]

\* C17: the matched rows, and the rows of the diverging subset, come in the
\* order of their rows in df1, whatever the key values are and whatever the
\* order of df2's rows is.
C17_LeftOrder ==
  Done =>
    /\ Increasing(LeftPositions(obj.intersect_rows))
    /\ Increasing(LeftPositions(obj.diverging_subset.rows))
    /\ \A other \in Reorderings(orig2) :
         LeftPositions(Comparison(obj.module, orig1, other, args).obj.intersect_rows)
           = LeftPositions(obj.intersect_rows)

\* C17's case: under a key join df1 holds its keys in descending order and
\* df2 holds them in ascending order
C17_Witness ==
  /\ Done
  /\ KeyJoin
  /\ Len(obj.intersect_rows) = 2
  /\ obj.intersect_rows[1].row1["id"].n > obj.intersect_rows[2].row1["id"].n
  /\ obj.intersect_rows[1].r > obj.intersect_rows[2].r
  /\ Len(obj.diverging_subset.rows) = 2

IntersectColumnsNow == intersect_columns(obj.module, df1, df2)
ReportNow == Report(df1, df2, obj)

\* the tables as the constructor left them
AsConstructed == Comparison(obj.module, orig1, orig2, args)

\* C19: once the Comparison is constructed, a change the caller makes to the
\* table passed as df1 changes the value of no accessor: intersect_columns()
\* and report() return what they returned before the change (the other
\* accessors return stored frames).
C19_NoBackReference ==
  pc = "mutated" =>
    /\ obj = AsConstructed.obj
    /\ IntersectColumnsNow = intersect_columns(obj.module, AsConstructed.df1, AsConstructed.df2)
    /\ ReportNow = Report(AsConstructed.df1, AsConstructed.df2, obj)

\* the stored frames are indeed left alone, and a changed value changes
\* neither intersect_columns() nor the numbers of report()
C19_StoredFramesKept ==
  pc = "mutated" =>
    /\ obj = AsConstructed.obj
    /\ df1.columns = AsConstructed.df1.columns =>
         /\ IntersectColumnsNow = intersect_columns(obj.module, AsConstructed.df1, AsConstructed.df2)
         /\ ReportNow = Report(AsConstructed.df1, AsConstructed.df2, obj)

\* the columns of both tables as passed that are no declared key
ComparedAsPassed ==
  (ColSet(orig1) \cap ColSet(orig2))
    \ (IF Truthy(args.join_columns) THEN Range(args.join_columns.cols) ELSE {})

\* every non-null value of column c is integral
Integral(df, c) ==
  \A i \in 1..NRows(df) : ~IsNull(df.rows[i][c]) => IsInteger(df.rows[i][c])

\* column c of the table as passed (was) and as the constructor left it (now):
\* retyped exactly when it is compared and integral, and in any case with the
\* values and the nulls it had
RetypedAsClaimed(was, now, c) ==
  /\ c \in ColSet(now)
  /\ (now.dtypes[c] = "Int64") <=> (c \in ComparedAsPassed /\ Integral(was, c))
  /\ now.dtypes[c] \in {"Int64", "float64"}
  /\ NRows(now) = NRows(was)
  /\ \A i \in 1..NRows(was) :
       /\ IsNull(now.rows[i][c]) <=> IsNull(was.rows[i][c])
       /\ ~IsNull(was.rows[i][c]) => SameValue(was.rows[i][c], now.rows[i][c])

FloatColumns(df) == {c \in ColSet(df) : df.dtypes[c] = "float64"}

\* C20: in each table a float column is retyped to nullable integer exactly
\* when it is a column of both tables, no key column, and all its non-null
\* values are integral (an all-null column too); the retype keeps every
\* value and every null where it was.
C20_IntegralRetype ==
  Constructed =>
    /\ \A c \in FloatColumns(orig1) : RetypedAsClaimed(orig1, df1, c)
    /\ \A c \in FloatColumns(orig2) : RetypedAsClaimed(orig2, df2, c)

\* the same, for tables whose values all lie within the int64 range
AllFitInt64(df) ==
  \A i \in 1..NRows(df) : \A c \in ColSet(df) : FitsInt64(df.rows[i][c])
C20_RetypeWithinInt64 ==
  (Constructed /\ AllFitInt64(orig1) /\ AllFitInt64(orig2)) =>
    /\ \A c \in FloatColumns(orig1) : RetypedAsClaimed(orig1, df1, c)
    /\ \A c \in FloatColumns(orig2) : RetypedAsClaimed(orig2, df2, c)

\* an integral column with a NaN and an all-NaN column are retyped, beside a
\* float key column and one-sided float columns that are not
C20_RetypedReached ==
  /\ Done
  /\ KeyJoin
  /\ NRows(df1) = 2 /\ NRows(df2) = 1
  /\ df1.dtypes["x"] = "Int64" /\ df2.dtypes["x"] = "Int64"
  /\ df1.rows[1]["x"] = IntV(10) /\ df1.rows[2]["x"] = NA
  /\ df2.rows[1]["x"] = NA
  /\ df1.dtypes["k"] = "float64" /\ df1.dtypes["p"] = "float64"

\* the columns of both tables as passed that the ignore list does not name,
\* in the order df1 holds them
CommonColumnsAsPassed ==
  SelectSeq(orig1.columns, LAMBDA c : c \in ColSet(orig2) /\ c \notin Ignored)

\* C21: on a constructed Comparison, of the compare module as of the core
\* module, intersect_columns() returns the columns of both tables that are
\* not ignored, key columns included, in df1's column order.
C21_IntersectColumns ==
  Done =>
    /\ IntersectColumnsNow.error = ""
    /\ IntersectColumnsNow.value = CommonColumnsAsPassed

\* C21 for the Comparison of the core module, under an ignore list whose
\* names are all columns of both tables
C21_CoreIntersectColumns ==
  (Done /\ obj.module = "core" /\ Ignored \subseteq (ColSet(orig1) \cap ColSet(orig2))) =>
    /\ IntersectColumnsNow.error = ""
    /\ IntersectColumnsNow.value = CommonColumnsAsPassed

\* the core accessor returns the key and a compared column, in df1's order,
\* where df2 holds its columns in another order and one column is ignored
C21_CoreReached ==
  /\ Done
  /\ obj.module = "core"
  /\ orig1.columns = <<"id", "x", "p">>
  /\ orig2.columns = <<"q", "id", "x">>
  /\ IntersectColumnsNow = [error |-> "", value |-> <<"id">>]
  /\ Ignored = {"x"}

\* the place of a step in the order of a run
StepOrder == <<"load1", "load2", "build", "xlsx", "txt", "html">>
StepPlace(step) == CHOOSE k \in DOMAIN StepOrder : StepOrder[k] = step
Started(step) == step \in Range(cli.steps)

\* C22: a run of cli starts its steps in the order load df1, load df2, build
\* the Comparison, write xlsx, write txt if asked for, write html if asked
\* for, each only after the ones before it succeeded; when a step from the
\* build on fails, the error is printed, the run ends with a non-zero status
\* and no later step starts: no report file after a failed build, no txt or
\* html file after a failed xlsx.
C22_FailStop ==
  pc = "cli" =>
    /\ \A i, j \in DOMAIN cli.steps :
         i < j => StepPlace(cli.steps[i]) < StepPlace(cli.steps[j])
    /\ Started("build") => Started("load1") /\ Started("load2")
    /\ Started("xlsx") => Started("build") /\ obj.error = ""
    /\ Started("txt") => cli.txt /\ "xlsx" \in cli.files
    /\ Started("html") => /\ cli.html /\ "xlsx" \in cli.files
                          /\ cli.txt => "txt" \in cli.files
    /\ cli.files \subseteq Range(cli.steps)
    /\ cli.failed \in {"build", "xlsx", "txt", "html"} =>
         /\ cli.pc = "exited"
         /\ cli.echoed # <<>>
         /\ cli.exit # 0
         /\ cli.steps[Len(cli.steps)] = cli.failed
         /\ cli.failed \notin cli.files
    /\ cli.failed = "build" => cli.files = {}
    /\ cli.failed = "xlsx" => cli.files = {}
    /\ (cli.pc = "exited" /\ cli.exit = 0) =>
         /\ cli.failed = ""
         /\ "xlsx" \in cli.files
         /\ cli.txt => "txt" \in cli.files
         /\ cli.html => "html" \in cli.files

\* C22's case: the xlsx step fails in a run asked for txt and html
C22_Witness ==
  /\ pc = "cli"
  /\ cli.pc = "exited"
  /\ cli.failed = "xlsx"
  /\ cli.txt /\ cli.html
  /\ cli.steps = <<"load1", "load2", "build", "xlsx">>
  /\ cli.files = {}
  /\ cli.echoed = <<"AttributeError">>
  /\ cli.exit = 255

\* the build fails: the error is printed and the run ends at once
C22_BuildWitness ==
  /\ pc = "cli"
  /\ cli.pc = "exited"
  /\ cli.failed = "build"
  /\ obj.error # ""
  /\ cli.echoed = <<obj.error>>
  /\ cli.steps = <<"load1", "load2", "build">>
  /\ cli.exit = 255

\* no run of cli writes a report: compare.Comparison has no report_to_xlsx
C22_NoReportWritten == cli.files = {}

\* the first call of the loader raised UnicodeDecodeError
FirstCallUndecodable ==
  /\ pc = "loaded"
  /\ ~loaded.utf8
  /\ (loaded.style = "omitted" \/ loaded.encoding = "None")

\* the loader was run again, once, with ISO-8859-1, and its table returned
RetriedOnce ==
  /\ loaded.result.error = ""
  /\ Len(loaded.result.calls) = 2
  /\ loaded.result.calls[2] = "ISO-8859-1"
  /\ loaded.result.df = df1

\* C23: when the first call of load_from_file raises UnicodeDecodeError, the
\* loader is retried exactly once with ISO-8859-1 and that result is
\* returned, however the caller passed encoding.
C23_DecodeFallback == FirstCallUndecodable => RetriedOnce

\* C23 for the call that passes no encoding
C23_FallbackWhenOmitted ==
  (FirstCallUndecodable /\ loaded.style = "omitted") => RetriedOnce

\* a file that decodes at the first call is read once
C23_NoRetryWhenDecodable ==
  (pc = "loaded" /\ ~FirstCallUndecodable) =>
    /\ loaded.result.error = ""
    /\ Len(loaded.result.calls) = 1
    /\ loaded.result.df = df1

\* in cli, which passes encoding by position, a file that is not valid UTF-8
\* ends the run with the TypeError of the retry
C23_CliReached ==
  /\ pc = "cli"
  /\ cli.failed = "load1"
  /\ cli.exit = 1

\* the mismatching cells of the diverging subset: the matched row, its row
\* of the subset and the column
DeltaCellsOf ==
  {qc \in Range(obj.intersect_rows) \X (Range(obj.diverging_subset.columns) \ KeyColumns) :
     qc[1].match[qc[2]] = "F" /\ SubsetRowsOf(qc[1].l) # {}}
DeltaTextOf(qc) == (CHOOSE row \in SubsetRowsOf(qc[1].l) : TRUE).cells[qc[2]].s

\* the cell renders its non-null values as they are, and differs from the
\* cell the same row would have with a null in the place of a non-null value
RendersVerbatim(qc) ==
  LET l == qc[1].row1[qc[2]]
      r == qc[1].row2[qc[2]]
      text == DeltaTextOf(qc)
  IN /\ ~IsNull(l) => /\ StartsWith(text, <<"{">> \o AsStr(l) \o Arrow)
                      /\ text # DeltaString(NaN, r).s
     /\ ~IsNull(r) => /\ EndsWith(text, Arrow \o AsStr(r) \o <<"}">>)
                      /\ text # DeltaString(l, NaN).s

\* C24: the elision of nulls leaves non-null values alone: in a delta a
\* non-null value stands verbatim in its braces, also when its text is
\* "nan", and the cell differs from the one a null would give.
C24_NullElisionOnly == Done => \A qc \in DeltaCellsOf : RendersVerbatim(qc)

\* C24 for the cells whose values are not the text "nan"
IsNanText(v) == v.t = "str" /\ v.s = <<"n", "a", "n">>
C24_VerbatimUnlessNanText ==
  Done => \A qc \in DeltaCellsOf :
            (~IsNanText(qc[1].row1[qc[2]]) /\ ~IsNanText(qc[1].row2[qc[2]]))
              => RendersVerbatim(qc)

\* the string "nan" on the right of a delta is rendered as a null is
C24_NanTextReached ==
  /\ Done
  /\ \E qc \in DeltaCellsOf :
       /\ qc[1].row1[qc[2]] = StrV(<<"a">>)
       /\ IsNanText(qc[1].row2[qc[2]])
       /\ DeltaTextOf(qc) = <<"{", "a", "}", " ", "-", "-", ">", " ", "{", "}">>

====
